---- MODULE Spec2Model ----
(***************************************************************************)
(* Model of migrate.py: the GitLab -> GitHub migration workflow.           *)
(*                                                                         *)
(* bulk_migrate_repositories runs migrate_repository once per entry of     *)
(* repo_mapping.  migrate_repository is a straight-line sequence of steps  *)
(* inside try/finally; every step talks to an external collaborator (git,  *)
(* the GitLab API, the GitHub API, the local file system) whose answer is  *)
(* chosen nondeterministically:                                            *)
(*   "ok"    the step reports success,                                     *)
(*   "fail"  the step reports failure the way its code expects it          *)
(*           (GitCommandError caught, HTTP status other than 2xx),         *)
(*   "fault" an exception the step does not catch leaves the step.         *)
(***************************************************************************)
EXTENDS Integers, Sequences, FiniteSets, TLC

\* ------------------------------------------------------------------ bounds
MaxJobs == 2
MaxReleases == 2
MaxClock == 1
MaxLines == 2
MaxLineLen == 3
MaxPaths == 2

\* ------------------------------------------------------------- value sets
None == "None"

Names == {"alpha", "beta"}
OwnerTypes == {"org", "Org", "user"}
OwnerNames == {None, "acme"}
TeamSlugs == {None, "devs"}

\* Release records as the GitLab API returns them; "name" and "description"
\* may be missing (gr.get(...) then yields None).  The k-th release of a
\* project is fixed; a project has any number of them up to MaxReleases.
GitlabRelease(k) ==
    CASE k = 1 -> [tag_name |-> "v1.0", name |-> "First", description |-> "notes 1.0"]
      [] k = 2 -> [tag_name |-> "v1.1", name |-> None, description |-> None]
      [] k = 3 -> [tag_name |-> "v1.2", name |-> "", description |-> "notes 1.2"]
      [] OTHER -> [tag_name |-> "v2.0", name |-> "Second", description |-> ""]

SeqsUpTo(S, n) == UNION { [1..k -> S] : k \in 0..n }

\* Batches of target names.  Names matter only through being equal or different,
\* so a batch starts with "alpha".
RepoMappings == { m \in SeqsUpTo(Names, MaxJobs) : Len(m) > 0 => m[1] = "alpha" }
ReleaseLists == { [k \in 1..n |-> GitlabRelease(k)] : n \in 0..MaxReleases }

StepOutcomes == {"ok", "fail", "fault"}

\* Lines of a batch file: strings are sequences of characters.
Chars == {" ", "#", ",", "a"}
Lines == SeqsUpTo(Chars, MaxLineLen)

VARIABLES
    repo_mapping,         \* bulk_migrate_repositories: the batch, a sequence of target names
    owner_type,           \* batch-wide parameters of bulk_migrate_repositories
    owner_name,
    team_slug,
    apply_repo_settings,
    copy_releases,
    results,              \* the result dict, in insertion order: seq of [name, status]
    idx,                  \* position of the for loop in repo_mapping
    pc,                   \* control position
    local_clone_dir,      \* migrate_repository: the job's clone directory
    success,              \* migrate_repository: the success flag
    ret,                  \* how the running try block left: "none", "True", "False", "raise"
    calls,                \* the step functions the current job has called, in order
    requests,             \* HTTP requests the current job has sent, in order
    out,                  \* what each step of the current job reported
    gitlab_releases,      \* copy_gitlab_releases_to_github: the fetched list
    rel_i,                \* copy_gitlab_releases_to_github: loop position
    release_calls,        \* create_github_release calls of the current job
    github_repos,         \* GitHub: names of the repositories that exist
    dir_exists,           \* local file system: local_clone_dir exists
    rm_log,               \* the failed removals of the current job's rmtree and what
                          \* on_rm_error did about each, in order
    now,                  \* int(time.time())
    jobs,                 \* finished migrate_repository calls: seq of
                          \* [name, dir, ret, created]
    line,                 \* __main__, bulk mode: the line the loop body is working on
    lines_read,           \* __main__, bulk mode: how many lines "for line in f" has read
    repo_list             \* __main__, bulk mode: the (source, name) entries collected

vars == << repo_mapping, owner_type, owner_name, team_slug, apply_repo_settings,
           copy_releases, results, idx, pc, local_clone_dir, success, ret, calls,
           requests, out, gitlab_releases, rel_i, release_calls, github_repos,
           dir_exists, rm_log, now, jobs, line, lines_read, repo_list >>

reader == << line, lines_read, repo_list >>

params == << repo_mapping, owner_type, owner_name, team_slug, apply_repo_settings,
             copy_releases >>

\* ------------------------------------------------------------ pure helpers

\* str.lower() on the owner types the model draws.
Lower(s) == IF s = "Org" THEN "org" ELSE s

IsOrg(ot) == Lower(ot) = "org"

\* Python truthiness of an optional string.
Truthy(s) == s # None /\ s # ""

\* Path(f"./temp_clone_{new_repo_name}_{int(time.time())}")
LocalCloneDir(new_repo_name, t) == << new_repo_name, t >>

NoOut == [ clone |-> "none", create |-> "none", push |-> "none", list |-> "none",
           settings |-> "none", access |-> "none", rm |-> "none" ]

\* dict assignment results[k] = v: replaces in place, or appends a new key.
HasKey(d, k) == \E i \in 1..Len(d) : d[i].name = k

\* Variant: a new key is put in front of the others.
DictSet_NewKeyFirst(d, k, v) ==
    IF HasKey(d, k)
    THEN [ i \in 1..Len(d) |-> IF d[i].name = k THEN [name |-> k, status |-> v] ELSE d[i] ]
    ELSE << [name |-> k, status |-> v] >> \o d

DictSet(d, k, v) ==
    IF HasKey(d, k)
    THEN [ i \in 1..Len(d) |-> IF d[i].name = k THEN [name |-> k, status |-> v] ELSE d[i] ]
    ELSE Append(d, [name |-> k, status |-> v])

DictGet(d, k) == d[CHOOSE i \in 1..Len(d) : d[i].name = k].status

\* Variant: the except branch records the job like an orderly failure.
ResultStatus_FaultAsFailed(r) ==
    IF r = "True" THEN "Success" ELSE "Failed"

\* "Success" if success else "Failed";  except Exception -> "Exception"
ResultStatus(r) ==
    IF r = "raise" THEN "Exception"
    ELSE IF r = "True" THEN "Success" ELSE "Failed"

\* Variant: the check of local_repo is missing.
CloneAborts_Never(r) == FALSE

\* if not local_repo: return False
CloneAborts(r) == r = "fail"

\* Variant: the check of github_clone_url is missing.
CreateAborts_Never(r) == FALSE

\* if not github_clone_url: return False
CreateAborts(r) == r = "fail"

\* Variant: the check of push_success is missing.
PushAborts_Never(r) == FALSE

\* if not push_success: return False
PushAborts(r) == r = "fail"

\* ------------------------------------------------------------------- Init
Init ==
    /\ repo_mapping \in RepoMappings
    /\ owner_type \in OwnerTypes
    /\ owner_name \in OwnerNames
    /\ team_slug \in TeamSlugs
    /\ apply_repo_settings \in BOOLEAN
    /\ copy_releases \in BOOLEAN
    /\ results = << >>
    /\ idx = 0
    /\ pc = "loop"
    /\ local_clone_dir = None
    /\ success = FALSE
    /\ ret = "none"
    /\ calls = << >>
    /\ requests = << >>
    /\ out = NoOut
    /\ gitlab_releases = << >>
    /\ rel_i = 0
    /\ release_calls = << >>
    /\ github_repos = {}
    /\ dir_exists = FALSE
    /\ rm_log = << >>
    /\ now = 0
    /\ jobs = << >>
    /\ line = << >>
    /\ lines_read = 0
    /\ repo_list = << >>


\* ------------------------------------------------- bulk_migrate_repositories

\* Whether the directory a job is about to use can exist already: only an
\* earlier job of the run that used the same path can have left it behind.
LeftBehind(dir, done) ==
    IF \E k \in 1..Len(done) : done[k].dir = dir THEN BOOLEAN ELSE {FALSE}

\* One turn of "for gitlab_repo_url, new_repo_name in repo_mapping": the call of
\* migrate_repository up to the try (local_clone_dir, success = False), or the
\* end of the loop and "return results".
BulkLoop ==
    /\ pc = "loop"
    /\ IF idx < Len(repo_mapping)
       THEN /\ idx' = idx + 1
            /\ local_clone_dir' = LocalCloneDir(repo_mapping[idx + 1], now)
            /\ dir_exists' \in LeftBehind(LocalCloneDir(repo_mapping[idx + 1], now), jobs)
            /\ success' = FALSE
            /\ pc' = "clone"
       ELSE /\ pc' = "returned"
            /\ UNCHANGED << idx, local_clone_dir, dir_exists, success >>
    /\ UNCHANGED << reader, rm_log, params, results, ret, calls, requests, out, gitlab_releases, rel_i,
                    release_calls, github_repos, now, jobs >>

\* Variant: no try/except in the loop body and a failed job ends the batch.
AfterJob_StopsAtFailure(r) == IF r = "True" THEN "loop" ELSE "returned"

\* Where the for loop goes once a job has ended with r: both the normal path
\* and the except branch fall through to the next entry.
AfterJob(r) == "loop"

\* migrate_repository has returned or raised: results[new_repo_name] = ...
\* The frame of the finished call is dropped.
BulkRecord ==
    /\ pc = "record"
    /\ results' = DictSet(results, repo_mapping[idx], ResultStatus(ret))
    /\ jobs' = Append(jobs, [name |-> repo_mapping[idx], dir |-> local_clone_dir,
                             ret |-> ret, created |-> (out.create = "ok")])
    /\ pc' = AfterJob(ret)
    /\ local_clone_dir' = None
    /\ success' = FALSE
    /\ ret' = "none"
    /\ calls' = << >>
    /\ requests' = << >>
    /\ out' = NoOut
    /\ gitlab_releases' = << >>
    /\ rel_i' = 0
    /\ release_calls' = << >>
    /\ dir_exists' = FALSE
    /\ rm_log' = << >>
    /\ UNCHANGED << reader, params, idx, github_repos, now >>

\* -------------------------------------------------------- migrate_repository

\* Variant: the removal sits at the end of the try block instead of in a
\* finally clause, so only a job that runs to its end reaches it.
Leave_CleanupOnSuccessOnly(how) ==
    /\ ret' = how
    /\ pc' = IF how = "True" THEN "finally" ELSE "record"

\* Leaving the try block: "return False" / an exception passes to finally.
Leave(how) ==
    /\ ret' = how
    /\ pc' = "finally"

\* 1. clone_from_gitlab: GitCommandError is caught and None returned; any other
\* exception leaves the function.  A clone that does not succeed may or may not
\* leave a directory behind.
CloneFromGitlab ==
    /\ pc = "clone"
    /\ calls' = Append(calls, "clone_from_gitlab")
    /\ \E r \in StepOutcomes, left \in BOOLEAN :
          /\ (r = "ok") => left
          /\ dir_exists' = (dir_exists \/ left)
          /\ out' = [out EXCEPT !.clone = r]
          /\ IF r = "fault" THEN Leave("raise")
             ELSE IF CloneAborts(r) THEN Leave("False")
             ELSE /\ pc' = "create"
                  /\ ret' = ret
    /\ UNCHANGED << reader, rm_log, params, results, idx, local_clone_dir, success, requests,
                    gitlab_releases, rel_i, release_calls, github_repos, now, jobs >>

\* Variant: the answer to a name that is taken counts as success too.
CreateGithubRepoOutcomes_TakenNameAccepted(ot, on, name, repos) ==
    IF IsOrg(ot) /\ ~ Truthy(on)
    THEN { [res |-> "fail", sent |-> FALSE] }
    ELSE { [res |-> r, sent |-> TRUE] : r \in StepOutcomes }

\* Variant: the request is sent without looking at the owner name.
CreateGithubRepoOutcomes_NoOwnerCheck(ot, on, name, repos) ==
    { [res |-> r, sent |-> TRUE] :
         r \in IF name \in repos THEN {"fail", "fault"} ELSE StepOutcomes }

\* create_github_repo: which answers the function can give, and whether it
\* sent the POST.  [res, sent]
CreateGithubRepoOutcomes(ot, on, name, repos) ==
    IF IsOrg(ot) /\ ~ Truthy(on)
    THEN { [res |-> "fail", sent |-> FALSE] }
    ELSE { [res |-> r, sent |-> TRUE] :
              r \in IF name \in repos THEN {"fail", "fault"} ELSE StepOutcomes }

\* 2. create_github_repo and "if not github_clone_url: return False"
CreateGithubRepo ==
    /\ pc = "create"
    /\ calls' = Append(calls, "create_github_repo")
    /\ \E o \in CreateGithubRepoOutcomes(owner_type, owner_name, repo_mapping[idx],
                                         github_repos) :
          /\ requests' = IF o.sent THEN Append(requests, "POST repos") ELSE requests
          /\ github_repos' = IF o.res = "ok" THEN github_repos \cup {repo_mapping[idx]}
                             ELSE github_repos
          /\ out' = [out EXCEPT !.create = o.res]
          /\ IF o.res = "fault" THEN Leave("raise")
             ELSE IF CreateAborts(o.res) THEN Leave("False")
             ELSE /\ pc' = "push"
                  /\ ret' = ret
    /\ UNCHANGED << reader, rm_log, params, results, idx, local_clone_dir, success, gitlab_releases,
                    rel_i, release_calls, dir_exists, now, jobs >>

\* 3. push_to_github and "if not push_success: return False"
PushToGithub ==
    /\ pc = "push"
    /\ calls' = Append(calls, "push_to_github")
    /\ \E r \in StepOutcomes :
          /\ out' = [out EXCEPT !.push = r]
          /\ IF r = "fault" THEN Leave("raise")
             ELSE IF PushAborts(r) THEN Leave("False")
             ELSE /\ pc' = "releases"
                  /\ ret' = ret
    /\ UNCHANGED << reader, rm_log, params, results, idx, local_clone_dir, success, requests,
                    gitlab_releases, rel_i, release_calls, github_repos, dir_exists, now, jobs >>


\* How create_github_release and update_github_repo_settings find gh_owner:
\* the owner given, or get_authenticated_username() under a user account with
\* no owner given ("login": a name came back, "none": None came back, "fault":
\* requests.get raised).
OwnerLookups(ot, on) ==
    IF IsOrg(ot) \/ Truthy(on) THEN {"given"} ELSE {"login", "none", "fault"}

\* What a function that needs gh_owner and then sends one request can report,
\* and the requests it sends.  [res, sent]
OwnedRequestOutcomes(ot, on, req) ==
    UNION { IF l = "fault" THEN { [res |-> "fault", sent |-> << "GET user" >>] }
            ELSE IF l = "none" THEN { [res |-> "no_owner", sent |-> << "GET user" >>] }
            ELSE { [res |-> r,
                    sent |-> (IF l = "login" THEN << "GET user" >> ELSE << >>)
                             \o << req >>] : r \in StepOutcomes }
            : l \in OwnerLookups(ot, on) }

\* Variant: the name is passed on as it came.
ReleaseName_AsGiven(gr) == gr.name

\* release_name = gr.get("name") or tag_name
ReleaseName(gr) == IF Truthy(gr.name) THEN gr.name ELSE gr.tag_name

\* description = gr.get("description") or ""
ReleaseBody(gr) == IF Truthy(gr.description) THEN gr.description ELSE ""

\* 4. "if copy_releases:" and copy_gitlab_releases_to_github up to its loop:
\* get_gitlab_releases returns the list on status 200 and [] otherwise.
CopyReleases ==
    /\ pc = "releases"
    /\ IF ~ copy_releases
       THEN /\ pc' = "settings"
            /\ out' = [out EXCEPT !.list = "skipped"]
            /\ UNCHANGED << calls, requests, gitlab_releases, rel_i, ret >>
       ELSE /\ calls' = Append(calls, "copy_gitlab_releases_to_github")
            /\ requests' = Append(requests, "GET releases")
            /\ \E r \in StepOutcomes, l \in ReleaseLists :
                  /\ (r # "ok") => (l = << >>)
                  /\ out' = [out EXCEPT !.list = r]
                  /\ gitlab_releases' = l
                  /\ IF r = "fault"
                     THEN /\ Leave("raise")
                          /\ rel_i' = rel_i
                     ELSE IF l = << >>
                     THEN /\ pc' = "settings"
                          /\ UNCHANGED << rel_i, ret >>
                     ELSE /\ pc' = "release_loop"
                          /\ rel_i' = 1
                          /\ ret' = ret
    /\ UNCHANGED << reader, rm_log, params, results, idx, local_clone_dir, success, release_calls,
                    github_repos, dir_exists, now, jobs >>

\* Variant: a failed last release makes the release copy start over.
AfterRelease_CopyAgain(res, i, n) ==
    IF i < n THEN "release_loop"
    ELSE IF res = "fail" THEN "releases" ELSE "settings"

\* After create_github_release returned res for release i of n: the for loop
\* goes on to the next release, or copy_gitlab_releases_to_github returns.
AfterRelease(res, i, n) ==
    IF i < n THEN "release_loop" ELSE "settings"

\* One turn of "for gr in gitlab_releases": create_github_release.
CreateGithubRelease ==
    /\ pc = "release_loop"
    /\ calls' = Append(calls, "create_github_release")
    /\ \E o \in OwnedRequestOutcomes(owner_type, owner_name, "POST release") :
          LET gr == gitlab_releases[rel_i] IN
          /\ requests' = requests \o o.sent
          /\ release_calls' = Append(release_calls,
                                     [tag_name |-> gr.tag_name, name |-> ReleaseName(gr),
                                      body |-> ReleaseBody(gr), res |-> o.res])
          /\ IF o.res = "fault"
             THEN /\ Leave("raise")
                  /\ rel_i' = rel_i
             ELSE /\ pc' = AfterRelease(o.res, rel_i, Len(gitlab_releases))
                  /\ rel_i' = rel_i + 1
                  /\ ret' = ret
    /\ UNCHANGED << reader, rm_log, params, results, idx, local_clone_dir, success, out,
                    gitlab_releases, github_repos, dir_exists, now, jobs >>

\* 5. "if apply_repo_settings:" and update_github_repo_settings
UpdateGithubRepoSettings ==
    /\ pc = "settings"
    /\ IF ~ apply_repo_settings
       THEN /\ pc' = "access"
            /\ out' = [out EXCEPT !.settings = "skipped"]
            /\ UNCHANGED << calls, requests, ret >>
       ELSE /\ calls' = Append(calls, "update_github_repo_settings")
            /\ \E o \in OwnedRequestOutcomes(owner_type, owner_name, "PATCH repo") :
                  /\ requests' = requests \o o.sent
                  /\ out' = [out EXCEPT !.settings = o.res]
                  /\ IF o.res = "fault" THEN Leave("raise")
                     ELSE /\ pc' = "access"
                          /\ ret' = ret
    /\ UNCHANGED << reader, rm_log, params, results, idx, local_clone_dir, success, gitlab_releases,
                    rel_i, release_calls, github_repos, dir_exists, now, jobs >>

\* Variant: the owner type is not looked at.
GrantsAccess_AnyOwner(ts, ot) == Truthy(ts)

\* if team_slug and owner_type.lower() == "org":
GrantsAccess(ts, ot) == Truthy(ts) /\ IsOrg(ot)

\* 6. add_default_access_permissions, when asked for
AddDefaultAccessPermissions ==
    /\ pc = "access"
    /\ IF ~ GrantsAccess(team_slug, owner_type)
       THEN /\ pc' = "finish"
            /\ out' = [out EXCEPT !.access = "skipped"]
            /\ UNCHANGED << calls, requests, ret >>
       ELSE /\ calls' = Append(calls, "add_default_access_permissions")
            /\ requests' = Append(requests, "PUT team")
            /\ \E r \in StepOutcomes :
                  /\ out' = [out EXCEPT !.access = r]
                  /\ IF r = "fault" THEN Leave("raise")
                     ELSE /\ pc' = "finish"
                          /\ ret' = ret
    /\ UNCHANGED << reader, rm_log, params, results, idx, local_clone_dir, success, gitlab_releases,
                    rel_i, release_calls, github_repos, dir_exists, now, jobs >>

\* success = True; return True
Finish ==
    /\ pc = "finish"
    /\ success' = TRUE
    /\ Leave("True")
    /\ UNCHANGED << reader, rm_log, params, results, idx, local_clone_dir, calls, requests, out,
                    gitlab_releases, rel_i, release_calls, github_repos, dir_exists, now, jobs >>

\* What rmtree can meet at one path of the tree: the removal works ("ok"),
\* fails once and works in the retry ("locked_once"), or fails in the retry
\* too ("locked").  A directory that does not exist fails in os.lstat, and
\* again in the retry.
PathStates == {"ok", "locked_once", "locked"}

RmtreePlans(exists) ==
    IF exists THEN UNION { [1..n -> PathStates] : n \in 1..MaxPaths }
    ELSE { << "locked" >> }

\* Variant: the handler does not re-raise after a failed retry.
OnRmError_Swallows(retry_ok) ==
    [ log |-> << "chmod", "sleep" >>
              \o (IF retry_ok THEN << "retry_ok" >> ELSE << "retry_err", "log_exception" >>),
      raised |-> FALSE ]

\* on_rm_error: os.chmod(path, stat.S_IWRITE), time.sleep(0.5), func(path);
\* when func fails again: logging.exception and raise.
OnRmError(retry_ok) ==
    [ log |-> << "chmod", "sleep" >>
              \o (IF retry_ok THEN << "retry_ok" >> ELSE << "retry_err", "log_exception" >>),
      raised |-> ~ retry_ok ]

\* rmtree at one path: the removal, and on_rm_error when it fails; a removal
\* that works at once leaves nothing in the log.
RemovePath(p) ==
    IF p = "ok" THEN [ log |-> << >>, raised |-> FALSE ]
    ELSE LET h == OnRmError(p = "locked_once") IN
         [ log |-> << "remove_err" >> \o h.log, raised |-> h.raised ]

\* shutil.rmtree(local_clone_dir, onerror=on_rm_error) over the paths of the
\* tree: an exception out of the handler ends the walk.
RECURSIVE Rmtree(_)
Rmtree(plan) ==
    IF plan = << >> THEN [ log |-> << >>, raised |-> FALSE ]
    ELSE LET h == RemovePath(Head(plan)) IN
         IF h.raised THEN h
         ELSE LET rest == Rmtree(Tail(plan)) IN
              [ log |-> h.log \o rest.log, raised |-> rest.raised ]

\* The runs of rmtree, each with its summary: "removed" at once, "retried" (a
\* removal failed and the retry succeeded), "raised" (a retry failed too).
RmtreeRuns(exists) ==
    { [ res |-> IF Rmtree(plan).raised THEN "raised"
                ELSE IF \E i \in 1..Len(plan) : plan[i] # "ok" THEN "retried"
                ELSE "removed",
        log |-> Rmtree(plan).log ] : plan \in RmtreePlans(exists) }

\* The same, tabulated by whether the directory exists.
RmtreeOutcomes == [ exists \in BOOLEAN |-> RmtreeRuns(exists) ]

\* Variant: no try/except around rmtree, so its exception replaces the outcome.
AfterFinally_Escalates(pending, rm) == IF rm = "raised" THEN "raise" ELSE pending

\* How migrate_repository ends once the finally block has run with rmtree
\* outcome rm: "except Exception" swallows a raising rmtree, so the return
\* value or exception of the try block stands.
AfterFinally(pending, rm) == pending

\* finally: remove the local clone directory
Finally ==
    /\ pc = "finally"
    /\ calls' = Append(calls, "rmtree")
    /\ \E rm \in RmtreeOutcomes[dir_exists] :
          /\ out' = [out EXCEPT !.rm = rm.res]
          /\ rm_log' = rm.log
          /\ dir_exists' = (dir_exists /\ rm.res = "raised")
          /\ ret' = AfterFinally(ret, rm.res)
    /\ pc' = "record"
    /\ UNCHANGED << reader, params, results, idx, local_clone_dir, success, requests,
                    gitlab_releases, rel_i, release_calls, github_repos, now, jobs >>

\* The wall clock passes a second boundary.  time.time() is read only when
\* migrate_repository is entered, so the seconds that pass during a job are
\* taken between that job and the next; and since the one thing a job takes
\* from the clock is the name of its directory, a boundary is taken where it
\* decides whether the next job gets the directory of an earlier one.
Tick ==
    /\ pc = "loop"
    /\ 0 < idx /\ idx < Len(repo_mapping)
    /\ now < MaxClock
    /\ \E k \in 1..Len(jobs) : jobs[k].dir = LocalCloneDir(repo_mapping[idx + 1], now)
    /\ now' = now + 1
    /\ UNCHANGED << reader, rm_log, params, results, idx, pc, local_clone_dir, success, ret, calls,
                    requests, out, gitlab_releases, rel_i, release_calls, github_repos,
                    dir_exists, jobs >>

Next ==
    \/ BulkLoop
    \/ CloneFromGitlab
    \/ CreateGithubRepo
    \/ PushToGithub
    \/ CopyReleases
    \/ CreateGithubRelease
    \/ UpdateGithubRepoSettings
    \/ AddDefaultAccessPermissions
    \/ Finish
    \/ Finally
    \/ BulkRecord
    \/ Tick

Spec == Init /\ [][Next]_vars


\* ------------------------------------------------- __main__: the batch file

IsSpace(c) == c = " "

\* Variant: the text is used as read.
Strip_Nothing(s) == s

\* str.strip()
Strip(s) ==
    LET keep == { i \in 1..Len(s) : ~IsSpace(s[i]) } IN
    IF keep = {} THEN << >>
    ELSE SubSeq(s, CHOOSE i \in keep : \A j \in keep : i <= j,
                   CHOOSE i \in keep : \A j \in keep : i >= j)

\* str.startswith("#")
StartsWithHash(s) == Len(s) > 0 /\ s[1] = "#"

\* str.split(","): the pieces between the separators, one more than separators.
Split(s) ==
    LET seps == { i \in 1..Len(s) : s[i] = "," }
        n == Cardinality(seps)
        at(k) == IF k = 0 THEN 0
                 ELSE IF k = n + 1 THEN Len(s) + 1
                 ELSE CHOOSE p \in seps : Cardinality({ q \in seps : q < p }) = k - 1
    IN  [ k \in 1..(n + 1) |-> SubSeq(s, at(k - 1) + 1, at(k) - 1) ]

\* The body of "for line in f": what repo_list is after the line l.
ParseLine(l, list) ==
    LET stripped == Strip(l)
        parts == [ k \in 1..Len(Split(stripped)) |-> Strip(Split(stripped)[k]) ]
    IN  IF stripped = << >> \/ StartsWithHash(stripped) THEN list
        ELSE IF Len(parts) = 2 THEN Append(list, << parts[1], parts[2] >>)
        ELSE list

\* The bulk branch of __main__ before the file is opened: no batch is running.
MainInit ==
    /\ repo_mapping = << >>
    /\ owner_type = "user"
    /\ owner_name = None
    /\ team_slug = None
    /\ apply_repo_settings = TRUE
    /\ copy_releases = TRUE
    /\ results = << >>
    /\ idx = 0
    /\ pc = "read_file"
    /\ local_clone_dir = None
    /\ success = FALSE
    /\ ret = "none"
    /\ calls = << >>
    /\ requests = << >>
    /\ out = NoOut
    /\ gitlab_releases = << >>
    /\ rel_i = 0
    /\ release_calls = << >>
    /\ github_repos = {}
    /\ dir_exists = FALSE
    /\ rm_log = << >>
    /\ now = 0
    /\ jobs = << >>
    /\ line = << >>
    /\ lines_read = 0
    /\ repo_list = << >>

batch == << repo_mapping, owner_type, owner_name, team_slug, apply_repo_settings,
            copy_releases, results, idx, local_clone_dir, success, ret, calls,
            requests, out, gitlab_releases, rel_i, release_calls, github_repos,
            dir_exists, rm_log, now, jobs >>

\* "for line in f": the file hands over its next line.
ReadLine ==
    /\ pc = "read_file"
    /\ lines_read < MaxLines
    /\ line' \in Lines
    /\ lines_read' = lines_read + 1
    /\ pc' = "line_read"
    /\ UNCHANGED << batch, repo_list >>

\* The loop body on the line just read; the line is done with afterwards.
LoopBody ==
    /\ pc = "line_read"
    /\ repo_list' = ParseLine(line, repo_list)
    /\ line' = << >>
    /\ pc' = "read_file"
    /\ UNCHANGED << batch, lines_read >>

\* The file is exhausted: the with block is left.
EndOfFile ==
    /\ pc = "read_file"
    /\ pc' = "file_read"
    /\ UNCHANGED << batch, reader >>

MainNext ==
    \/ ReadLine
    \/ LoopBody
    \/ EndOfFile

MainSpec == MainInit /\ [][MainNext]_vars


\* ===================================================================== claims

Called(f) == \E i \in 1..Len(calls) : calls[i] = f

CallCount(f) == Cardinality({ i \in 1..Len(calls) : calls[i] = f })

PostProcessing == { "copy_gitlab_releases_to_github", "create_github_release",
                    "update_github_repo_settings", "add_default_access_permissions" }

\* C1: in a job whose clone step reports failure, create_github_repo is never
\* called and neither is any later step except the removal of the clone
\* directory; no request goes out and the job returns False.
C1_CloneFailureStopsJob ==
    out.clone = "fail" =>
        /\ calls \in { << "clone_from_gitlab" >>, << "clone_from_gitlab", "rmtree" >> }
        /\ requests = << >>
        /\ pc \in {"finally", "record"}
        /\ ret = "False"
        /\ ~ success

C1_Witness ==
    /\ out.clone = "fail"
    /\ pc = "record"
    /\ calls = << "clone_from_gitlab", "rmtree" >>

\* C2: in a job whose target repository creation reports failure, push_to_github
\* is never called, the job returns False (status Failed) and the removal of the
\* local clone is the one call that follows.
C2_CreateFailureStopsJob ==
    out.create = "fail" =>
        /\ ~ Called("push_to_github")
        /\ calls \in { << "clone_from_gitlab", "create_github_repo" >>,
                       << "clone_from_gitlab", "create_github_repo", "rmtree" >> }
        /\ pc \in {"finally", "record"}
        /\ ret = "False"
        /\ (pc = "record" => Called("rmtree"))

C2_Witness ==
    /\ out.create = "fail"
    /\ "POST repos" \in { requests[i] : i \in 1..Len(requests) }
    /\ pc = "record"
    /\ Called("rmtree")

\* C3: no post-processing step (release copy, release creation, settings
\* update, team access grant) is called unless push_to_github returned True;
\* when the push reports failure the job returns False and only the removal of
\* the clone directory follows the push.
C3_PostProcessingOnlyAfterPush ==
    /\ (\E i \in 1..Len(calls) : calls[i] \in PostProcessing) => out.push = "ok"
    /\ out.push = "fail" =>
          /\ calls \in { << "clone_from_gitlab", "create_github_repo", "push_to_github" >>,
                         << "clone_from_gitlab", "create_github_repo", "push_to_github",
                            "rmtree" >> }
          /\ pc \in {"finally", "record"}
          /\ ret = "False"

C3_Witness ==
    /\ out.push = "fail"
    /\ pc = "record"
    /\ ret = "False"
    /\ calls[Len(calls)] = "rmtree"

\* C4: every job calls rmtree on its clone directory exactly once, as the last
\* of its calls, however the try block was left (return False after clone,
\* creation or push, an exception out of a step, or return True); before the
\* job ends it has not called it.
C4_CleanupExactlyOnceAndLast ==
    /\ pc = "record" =>
          /\ CallCount("rmtree") = 1
          /\ calls[Len(calls)] = "rmtree"
          /\ out.rm # "none"
    /\ pc # "record" => ~ Called("rmtree")
    /\ pc \in {"loop", "returned"} => Len(jobs) = idx

C4_Witness ==
    /\ pc = "record"
    /\ ret = "raise"
    /\ out.settings = "fault"
    /\ CallCount("rmtree") = 1
    /\ calls[Len(calls)] = "rmtree"


HardStepsOk == out.clone = "ok" /\ out.create = "ok" /\ out.push = "ok"

HardStepFailed == out.clone = "fail" \/ out.create = "fail" \/ out.push = "fail"

\* Some step of the current job let an exception out.
StepFaulted ==
    \/ \E f \in {"clone", "create", "push", "list", "settings", "access"} : out[f] = "fault"
    \/ \E i \in 1..Len(release_calls) : release_calls[i].res = "fault"

\* C5: a job in which clone, target creation and push all succeeded reports
\* success whatever happens in the release copy, the settings update and the
\* team access grant, and no other job reports success.
C5_OnlyHardStepsDecideSuccess ==
    pc = "record" => (ret = "True" <=> HardStepsOk)

\* C6: once the release copy of a job is over, create_github_release has been
\* called for every release of the source list, whichever of the calls failed.
C6_EveryReleaseAttempted ==
    (out.list = "ok" /\ pc \notin {"releases", "release_loop"}) =>
        Len(release_calls) = Len(gitlab_releases)

NamesOf(m) == { m[k] : k \in 1..Len(m) }

LastWithName(k) == \A j \in (k + 1)..Len(jobs) : jobs[j].name # jobs[k].name

\* C7 as stated: a returned batch of N jobs has processed all N, its result
\* map has N entries, and every job that returned False is marked Failed.
C7_ResultMapHasSizeN ==
    pc = "returned" =>
        /\ Len(jobs) = Len(repo_mapping)
        /\ Len(results) = Len(repo_mapping)
        /\ \A k \in 1..Len(jobs) :
              jobs[k].ret = "False" =>
                  /\ HasKey(results, jobs[k].name)
                  /\ DictGet(results, jobs[k].name) = "Failed"

\* C7 amended: a returned batch of N jobs has processed all N in order, its
\* result map has one entry per distinct target name (N entries when the names
\* are pairwise distinct), and a job that returned False is marked Failed
\* unless a later job of the batch has the same target name.
C7_ResultMapPerName ==
    pc = "returned" =>
        /\ Len(jobs) = Len(repo_mapping)
        /\ \A k \in 1..Len(jobs) : jobs[k].name = repo_mapping[k]
        /\ Len(results) = Cardinality(NamesOf(repo_mapping))
        /\ \A k \in 1..Len(jobs) :
              (jobs[k].ret = "False" /\ LastWithName(k)) =>
                  /\ HasKey(results, jobs[k].name)
                  /\ DictGet(results, jobs[k].name) = "Failed"

C7_Witness ==
    /\ pc = "returned"
    /\ Len(jobs) = 2
    /\ jobs[1].ret = "False"
    /\ jobs[1].name # jobs[2].name
    /\ Len(results) = 2
    /\ results[1] = [name |-> jobs[1].name, status |-> "Failed"]

\* The status each way of ending a migrate_repository call stands for.
C8_StatusOfOutcome(r) ==
    CASE r = "raise" -> "Exception"
      [] r = "False" -> "Failed"
      [] r = "True" -> "Success"

\* C8: the result map holds, for the job just recorded and for every earlier
\* job whose name no later job reused, Exception when its migrate_repository
\* call raised, Failed when it returned False and Success when it returned
\* True; and a batch that has returned has run every job, also those after a
\* job that raised.
C8_OutcomesRecordedDistinctly ==
    /\ \A k \in 1..Len(jobs) :
          LastWithName(k) =>
              /\ HasKey(results, jobs[k].name)
              /\ DictGet(results, jobs[k].name) = C8_StatusOfOutcome(jobs[k].ret)
    /\ \A k \in 1..Len(jobs) : jobs[k].ret \in {"raise", "False", "True"}
    /\ pc = "returned" => Len(jobs) = Len(repo_mapping)

C8_Witness ==
    /\ pc = "returned"
    /\ Len(jobs) = 2
    /\ jobs[1].ret = "raise"
    /\ jobs[2].ret = "True"
    /\ results = << [name |-> jobs[1].name, status |-> "Exception"],
                    [name |-> jobs[2].name, status |-> "Success"] >>

\* C9: how migrate_repository ends is decided by its steps alone: it raises
\* when a step let an exception out, returns False when clone, creation or
\* push reported failure, and returns True otherwise -- whether rmtree removed
\* the directory or raised after on_rm_error's retry.
C9_CleanupFailureKeepsOutcome ==
    pc = "record" =>
        ret = (IF StepFaulted THEN "raise" ELSE IF HardStepFailed THEN "False" ELSE "True")

C9_Witness ==
    /\ pc = "record"
    /\ out.rm = "raised"
    /\ out.clone = "ok"
    /\ dir_exists
    /\ ret = "True"

\* C10: any two jobs of a run use different local clone directories.
C10_CloneDirsDistinct ==
    \A i, j \in 1..Len(jobs) : i # j => jobs[i].dir # jobs[j].dir


Requested(r) == \E i \in 1..Len(requests) : requests[i] = r

\* C11: add_default_access_permissions is called, and its PUT sent, only in a
\* job that has a team identifier and whose owner type is an organization
\* (in any letter case); never for a user account or without a team.
C11_AccessGrantOnlyForOrgTeam ==
    (Called("add_default_access_permissions") \/ Requested("PUT team")) =>
        /\ team_slug # None
        /\ owner_type \in {"org", "Org"}

C11_Witness ==
    /\ Called("add_default_access_permissions")
    /\ owner_type = "Org"
    /\ team_slug = "devs"
    /\ out.access = "ok"


\* What the sentences about the batch file say of one line, stated on the
\* line's text alone.
Blank(l) == \A i \in 1..Len(l) : l[i] = " "

CommaCount(l) == Cardinality({ i \in 1..Len(l) : l[i] = "," })

\* t is f without its leading and trailing blanks.
TrimOf(f, t) ==
    /\ t = << >> \/ (t[1] # " " /\ t[Len(t)] # " ")
    /\ \E a, b \in 0..Len(f) :
          /\ a + Len(t) + b = Len(f)
          /\ \A i \in 1..a : f[i] = " "
          /\ \A i \in (Len(f) - b + 1)..Len(f) : f[i] = " "
          /\ \A i \in 1..Len(t) : t[i] = f[a + i]

\* list2 is list1 with one entry added at its end: the two fields of l around
\* its only comma, both trimmed.
AddsEntryOf(l, list1, list2) ==
    \E c \in 1..Len(l) :
        /\ l[c] = ","
        /\ Len(list2) = Len(list1) + 1
        /\ SubSeq(list2, 1, Len(list1)) = list1
        /\ TrimOf(SubSeq(l, 1, c - 1), list2[Len(list2)][1])
        /\ TrimOf(SubSeq(l, c + 1, Len(l)), list2[Len(list2)][2])

LineDone == pc = "line_read" /\ pc' = "read_file"

\* C12 as written: a line adds one trimmed (source, name) entry at the end of
\* the list exactly when it is not blank, its first character is not '#', and
\* it has exactly one comma; any other line leaves the list as it is.
C12_EntryUnlessHashFirst ==
    [][ LineDone =>
          IF ~Blank(line) /\ line[1] # "#" /\ CommaCount(line) = 1
          THEN AddsEntryOf(line, repo_list, repo_list')
          ELSE repo_list' = repo_list ]_vars

FirstNonBlank(l) == l[CHOOSE i \in 1..Len(l) : l[i] # " " /\ \A j \in 1..(i - 1) : l[j] = " "]

\* C12 amended: a line adds one trimmed (source, name) entry at the end of the
\* list exactly when it is not blank, its first character after the leading
\* blanks is not '#', and it has exactly one comma; any other line leaves the
\* list as it is, so the entries stand in the order of their lines.
C12_EntryUnlessCommentAfterTrim ==
    [][ LineDone =>
          IF ~Blank(line) /\ FirstNonBlank(line) # "#" /\ CommaCount(line) = 1
          THEN AddsEntryOf(line, repo_list, repo_list')
          ELSE repo_list' = repo_list ]_vars

C12_Witness ==
    /\ lines_read = 2
    /\ pc = "file_read"
    /\ repo_list = << << <<"a">>, <<"#">> >>, << << >>, <<"a">> >> >>


\* The place of a called function in the order of the steps of a job; the
\* release creations belong to the release copy.
StepRank(f) ==
    CASE f = "clone_from_gitlab" -> 1
      [] f = "create_github_repo" -> 2
      [] f = "push_to_github" -> 3
      [] f = "copy_gitlab_releases_to_github" -> 4
      [] f = "create_github_release" -> 4
      [] f = "update_github_repo_settings" -> 5
      [] f = "add_default_access_permissions" -> 6
      [] f = "rmtree" -> 7

\* C13: the calls of one job follow the order clone, creation, push, release
\* copy, settings update, team access grant, cleanup: every call belongs to a
\* later step than the call before it (only the release creations inside the
\* one release copy repeat), so no step is entered twice or returned to, and
\* create_github_repo is called at most once.
C13_StepsInOrderOnce ==
    /\ \A i \in 1..(Len(calls) - 1) :
          \/ StepRank(calls[i]) < StepRank(calls[i + 1])
          \/ /\ StepRank(calls[i]) = StepRank(calls[i + 1])
             /\ calls[i + 1] = "create_github_release"
    /\ CallCount("create_github_repo") <= 1
    /\ Called("create_github_repo") => calls[1] = "clone_from_gitlab"

C13_Witness ==
    /\ pc = "record"
    /\ calls = << "clone_from_gitlab", "create_github_repo", "push_to_github",
                  "copy_gitlab_releases_to_github", "create_github_release",
                  "create_github_release", "update_github_repo_settings",
                  "add_default_access_permissions", "rmtree" >>


\* The first finished job that had the target name n.
FirstJobNamed(n) ==
    CHOOSE k \in 1..Len(jobs) :
        jobs[k].name = n /\ \A j \in 1..(k - 1) : jobs[j].name # n

\* C14: a batch runs its jobs one at a time in input order: while job K runs
\* exactly the jobs 1..K-1 have ended and been recorded, between jobs no step
\* of any job is under way, the finished jobs are the first entries of the
\* input in their order, and the result map holds the names of the finished
\* jobs in the order in which they were first processed.
C14_JobsOneAtATimeInInputOrder ==
    /\ Len(jobs) = IF pc \in {"loop", "returned"} THEN idx ELSE idx - 1
    /\ \A k \in 1..Len(jobs) : jobs[k].name = repo_mapping[k]
    /\ pc \in {"loop", "returned"} => (calls = << >> /\ ret = "none" /\ out = NoOut)
    /\ pc = "clone" => (calls = << >> /\ ret = "none" /\ out = NoOut)
    /\ \A k \in 1..Len(jobs) : HasKey(results, jobs[k].name)
    /\ \A i \in 1..Len(results) : \E k \in 1..Len(jobs) : jobs[k].name = results[i].name
    /\ \A i, j \in 1..Len(results) :
          i < j => FirstJobNamed(results[i].name) < FirstJobNamed(results[j].name)

C14_Witness ==
    /\ pc = "clone"
    /\ idx = 2
    /\ Len(jobs) = 1
    /\ repo_mapping = << "alpha", "beta" >>
    /\ results = << [name |-> "alpha", status |-> "Failed"] >>


\* C15: in the cleanup every failed removal is followed by clearing the
\* read-only attribute, the pause and one retry of that removal, and every
\* retry belongs to one failed removal; a failed retry is logged and is the end
\* of the removal (no further path, no further retry); and the job still ends
\* as its steps decided.
C15_OneRetryThenAbandon ==
    /\ \A i \in 1..Len(rm_log) :
          rm_log[i] = "remove_err" =>
              /\ i + 3 <= Len(rm_log)
              /\ rm_log[i + 1] = "chmod"
              /\ rm_log[i + 2] = "sleep"
              /\ rm_log[i + 3] \in {"retry_ok", "retry_err"}
    /\ \A i \in 1..Len(rm_log) :
          rm_log[i] \in {"retry_ok", "retry_err"} => (i > 3 /\ rm_log[i - 3] = "remove_err")
    /\ \A i \in 1..Len(rm_log) :
          rm_log[i] = "retry_err" =>
              /\ i + 1 = Len(rm_log)
              /\ rm_log[i + 1] = "log_exception"
              /\ pc = "record"
              /\ ret = (IF StepFaulted THEN "raise"
                        ELSE IF HardStepFailed THEN "False" ELSE "True")

C15_Witness ==
    /\ pc = "record"
    /\ rm_log = << "remove_err", "chmod", "sleep", "retry_ok",
                   "remove_err", "chmod", "sleep", "retry_err", "log_exception" >>
    /\ ret = "True"


\* get_authenticated_username gave no name: its GET was not followed by the
\* request of the function that asked (that function sends it next, if it
\* sends it).
IdentityFailed ==
    \E i \in 1..Len(requests) :
        /\ requests[i] = "GET user"
        /\ i = Len(requests) \/ requests[i + 1] = "GET user"

\* C16: GET /user is sent only for a user account with no owner name given;
\* a settings update or release creation that got no name sends no PATCH or
\* POST; and a job in which the resolution failed still returns True.
C16_IdentityFailureKeepsSuccess ==
    /\ Requested("GET user") => (owner_type = "user" /\ owner_name = None)
    /\ out.settings = "no_owner" => ~ Requested("PATCH repo")
    /\ (\A i \in 1..Len(release_calls) : release_calls[i].res = "no_owner")
          => ~ Requested("POST release")
    /\ (pc = "record" /\ IdentityFailed) => ret = "True"

\* C17: when get_gitlab_releases errors or returns no releases, no release is
\* created on GitHub, nothing is raised, the job goes on to the settings
\* update and returns True.
C17_NoReleasesKeepsSuccess ==
    (out.list \in {"fail", "fault"} \/ (out.list = "ok" /\ gitlab_releases = << >>)) =>
        /\ release_calls = << >>
        /\ ~ Requested("POST release")
        /\ pc \in {"settings", "access", "finish", "finally", "record"}
        /\ ret # "raise"
        /\ pc = "record" =>
              /\ apply_repo_settings => Called("update_github_repo_settings")
              /\ ret = "True"


C19_CreatedRepoStays ==
    /\ \A k \in 1..Len(jobs) : jobs[k].created => jobs[k].name \in github_repos
    /\ out.create = "ok" => repo_mapping[idx] \in github_repos
    /\ (out.create = "ok" /\ out.push = "fail") =>
          /\ pc \in {"finally", "record"}
          /\ ret = "False"
          /\ ~ Called("update_github_repo_settings")
    /\ \A k \in 1..Len(jobs) :
          (jobs[k].created /\ idx > Len(jobs) /\ repo_mapping[idx] = jobs[k].name) =>
              /\ out.create # "ok"
              /\ out.create = "fail" => ret = "False"

C19_Witness ==
    /\ pc = "record"
    /\ Len(jobs) = 1
    /\ jobs[1].created
    /\ jobs[1].ret = "False"
    /\ repo_mapping[idx] = jobs[1].name
    /\ Requested("POST repos")
    /\ out.create = "fail"
    /\ ret = "False"

\* C20: create_github_repo for an organization with no owner name fails
\* without sending its POST; the job has then cloned, does not push or send
\* any request, cleans up and returns False.
C20_OrgWithoutOwnerFailsUnsent ==
    (owner_type \in {"org", "Org"} /\ owner_name = None /\ out.create # "none") =>
        /\ out.create = "fail"
        /\ requests = << >>
        /\ out.clone = "ok"
        /\ pc \in {"finally", "record"}
        /\ ret = "False"
        /\ pc = "record" =>
              calls = << "clone_from_gitlab", "create_github_repo", "rmtree" >>

C20_Witness ==
    /\ pc = "record"
    /\ owner_type = "org"
    /\ owner_name = None
    /\ calls = << "clone_from_gitlab", "create_github_repo", "rmtree" >>
    /\ requests = << >>
    /\ ret = "False"

====
